---- MODULE Spec2Model ----
(***************************************************************************)
(* The game-state engine of twenty25: the reducer of GameContext.tsx, the  *)
(* tryCreatePile / tryAddCardToPile helpers that close over the rendered   *)
(* state, and the pure functions of game-utils.ts.                         *)
(*                                                                         *)
(* Card ids are modelled as integers (n stands for the id `card-n`), pile  *)
(* ids as positive integers in creation order (the reducer builds them     *)
(* from Date.now() and Math.random()).                                     *)
(***************************************************************************)
EXTENDS Integers, Sequences, FiniteSets, TLC

\* ---------------------------------------------------------------- bounds
\* Piles created over a whole run (pile ids are never reused).
MaxPiles == 2
\* Cap on the mistakes counter.
MaxMistakes == 1
\* The player fills a pile while it is the only one on the board: a click
\* with a multi-card selection brings it to between CategorySize - NearFull
\* and CategorySize + MaxOver cards, and from CategorySize - NearFull cards
\* on it also grows card by card.
NearFull == 1
MaxOver == 1
\* The states the utility functions are called on: cards in the card list,
\* piles, card ids per pile, completedCount.
MaxTotalCards == 8
MaxTestPiles == 2
MaxPileLen == 2
MaxCompleted == 1

\* ------------------------------------------------------------- constants
\* Cards of a complete pile (game-utils.ts: `pile.cardIds.length === 45`).
CategorySize == 45
\* Cards of `cat-1` in the dataset (the 46-card fixture of the context test).
LargeCategoryCards == 46
\* Cards of a pile as CREATE_PILE makes it (`cardIds: [card1Id, card2Id]`).
CreatedSize == 2

\* JavaScript's null and undefined.
null == "<null>"
undefined == "<undefined>"

\* `a || b` on strings: a when it is truthy, else b.
OrElse(a, b) == IF a \in {null, undefined, ""} THEN b ELSE a

\* ---------------------------------------------------------------- dataset
categories ==
  << [id |-> "cat-1", name |-> "Category 1"],
     [id |-> "cat-2", name |-> "Category 2"] >>

\* cat-1: card-0 .. card-45, cat-2: card-46.
initialCards ==
  [i \in 1..(LargeCategoryCards + 1) |->
     [id |-> i - 1,
      categoryId |-> IF i <= LargeCategoryCards THEN "cat-1" ELSE "cat-2"]]

\* An id no card of the dataset has.
InvalidCard == LargeCategoryCards + 1

\* Card ids a caller passes freely: two cat-1 cards, the cat-2 card, and an
\* id that is no card.
UserCards == {0, 1, LargeCategoryCards, InvalidCard}

\* ---------------------------------------------------------- array helpers
\* Array.prototype.find / findIndex by id: the 1-based index of the first
\* element with that id, 0 when there is none.
IndexOfId(seq, id) ==
  IF \E i \in 1..Len(seq) : seq[i].id = id
  THEN CHOOSE i \in 1..Len(seq) :
         seq[i].id = id /\ \A j \in 1..(i - 1) : seq[j].id # id
  ELSE 0

Range(seq) == {seq[i] : i \in 1..Len(seq)}

\* ------------------------------------------------------------ game-utils
isPileComplete(pile) == Len(pile.cardIds) = CategorySize

\* getPileCategoryId reading the pile's last card instead of its first.
getPileCategoryIdOfLast(pile, allCards) ==
  IF Len(pile.cardIds) = 0 THEN null
  ELSE LET lastCardId == pile.cardIds[Len(pile.cardIds)]
           k == IndexOfId(allCards, lastCardId)
       IN  IF k # 0 THEN allCards[k].categoryId ELSE null

getPileCategoryId(pile, allCards) ==
  IF Len(pile.cardIds) = 0 THEN null
  ELSE LET firstCardId == pile.cardIds[1]
           k == IndexOfId(allCards, firstCardId)
       IN  IF k # 0 THEN allCards[k].categoryId ELSE null

\* canAddCardToPile without the category comparison.
canAddCardToPileAny(card, pile, allCards) == TRUE

canAddCardToPile(card, pile, allCards) ==
  IF Len(pile.cardIds) = 0 THEN TRUE
  ELSE card.categoryId = getPileCategoryId(pile, allCards)

getCategoryName(categoryId, cats) ==
  LET k == IndexOfId(cats, categoryId)
  IN  IF k # 0 THEN cats[k].name ELSE null

\* getUngroupedCards collecting the card ids of the first pile only.
getUngroupedCardsFirstPile(s) ==
  LET cardIdsInPiles == IF s.piles = <<>> THEN {} ELSE Range(s.piles[1].cardIds)
      Free(card) == card.id \notin cardIdsInPiles
  IN  SelectSeq(s.cards, Free)

getUngroupedCards(s) ==
  LET cardIdsInPiles == UNION {Range(s.piles[i].cardIds) : i \in 1..Len(s.piles)}
      Free(card) == card.id \notin cardIdsInPiles
  IN  SelectSeq(s.cards, Free)

\* getPileCards filtering the card list by membership in the pile, which
\* gives the cards in the card list's order.
getPileCardsInListOrder(pileId, s) ==
  LET k == IndexOfId(s.piles, pileId)
      InPile(card) == card.id \in Range(s.piles[k].cardIds)
  IN  IF k = 0 THEN <<>> ELSE SelectSeq(s.cards, InPile)

\* pile.cardIds mapped to the found cards (by position in s.cards, 0 for
\* undefined), the undefined ones filtered out.
getPileCards(pileId, s) ==
  LET k == IndexOfId(s.piles, pileId)
      found == [n \in 1..Len(s.piles[k].cardIds) |->
                  IndexOfId(s.cards, s.piles[k].cardIds[n])]
      Defined(i) == i # 0
      kept == SelectSeq(found, Defined)
  IN  IF k = 0 THEN <<>> ELSE [n \in 1..Len(kept) |-> s.cards[kept[n]]]

\* calculateCorrectCards counting each card id once.
calculateCorrectCardsDistinct(s) ==
  Cardinality(UNION {Range(s.piles[k].cardIds) : k \in 1..Len(s.piles)})

RECURSIVE SumOfLengths(_, _)
\* The loop of calculateCorrectCards from pile k on.
SumOfLengths(piles, k) ==
  IF k > Len(piles) THEN 0
  ELSE Len(piles[k].cardIds) + SumOfLengths(piles, k + 1)

calculateCorrectCards(s) == SumOfLengths(s.piles, 1)

\* findPileContainingCard returning the last pile that includes the card.
findPileContainingCardLast(cardId, s) ==
  LET holders == {k \in 1..Len(s.piles) : cardId \in Range(s.piles[k].cardIds)}
  IN  IF holders = {} THEN null
      ELSE s.piles[CHOOSE k \in holders : \A m \in holders : m <= k]

findPileContainingCard(cardId, s) ==
  LET holders == {k \in 1..Len(s.piles) : cardId \in Range(s.piles[k].cardIds)}
  IN  IF holders = {} THEN null
      ELSE s.piles[CHOOSE k \in holders : \A m \in holders : k <= m]

\* Math.floor in the place of Math.round.
MathFloor(num, den) == num \div den

\* Math.round of the non-negative quotient num / den: the nearest integer,
\* halves rounded up.
MathRound(num, den) == (2 * num + den) \div (2 * den)

calculateCompletionPercentage(s) ==
  LET totalCards == Len(s.cards)
      completedCards == s.completedCount * CategorySize
  IN  IF totalCards = 0 THEN 0
      ELSE MathRound(completedCards * 100, totalCards)

\* --------------------------------------------------------------- reducer
\* CREATE_PILE storing the two cards in the opposite order.
ReduceCreatePileSwapped(s, card1Id, card2Id, pileId) ==
  LET k1 == IndexOfId(s.cards, card1Id)
      k2 == IndexOfId(s.cards, card2Id)
      newPile == [id |-> pileId,
                  cardIds |-> <<card2Id, card1Id>>,
                  isComplete |-> FALSE,
                  revealedCategoryName |-> null]
  IN  IF k1 = 0 \/ k2 = 0 THEN s
      ELSE IF s.cards[k1].categoryId # s.cards[k2].categoryId THEN s
      ELSE [s EXCEPT !.piles = Append(@, newPile)]

\* CREATE_PILE counting the mistake itself when the categories differ.
ReduceCreatePileCountingMistake(s, card1Id, card2Id, pileId) ==
  LET k1 == IndexOfId(s.cards, card1Id)
      k2 == IndexOfId(s.cards, card2Id)
      newPile == [id |-> pileId,
                  cardIds |-> <<card1Id, card2Id>>,
                  isComplete |-> FALSE,
                  revealedCategoryName |-> null]
  IN  IF k1 = 0 \/ k2 = 0 THEN s
      ELSE IF s.cards[k1].categoryId # s.cards[k2].categoryId
      THEN [s EXCEPT !.mistakes = @ + 1]
      ELSE [s EXCEPT !.piles = Append(@, newPile)]

\* CREATE_PILE opening the pile with the first card only.
ReduceCreatePileOfOne(s, card1Id, card2Id, pileId) ==
  LET k1 == IndexOfId(s.cards, card1Id)
      k2 == IndexOfId(s.cards, card2Id)
      newPile == [id |-> pileId,
                  cardIds |-> <<card1Id>>,
                  isComplete |-> FALSE,
                  revealedCategoryName |-> null]
  IN  IF k1 = 0 \/ k2 = 0 THEN s
      ELSE IF s.cards[k1].categoryId # s.cards[k2].categoryId THEN s
      ELSE [s EXCEPT !.piles = Append(@, newPile)]

\* CREATE_PILE; pileId is the freshly generated id.
ReduceCreatePile(s, card1Id, card2Id, pileId) ==
  LET k1 == IndexOfId(s.cards, card1Id)
      k2 == IndexOfId(s.cards, card2Id)
      newPile == [id |-> pileId,
                  cardIds |-> <<card1Id, card2Id>>,
                  isComplete |-> FALSE,
                  revealedCategoryName |-> null]
  IN  IF k1 = 0 \/ k2 = 0 THEN s
      ELSE IF s.cards[k1].categoryId # s.cards[k2].categoryId THEN s
      ELSE [s EXCEPT !.piles = Append(@, newPile)]

\* UpdatedPile completing the pile only when the caller announced the
\* completion by passing the category name.
UpdatedPileWhenNamed(pile, cardId, categoryName) ==
  LET appended == [pile EXCEPT !.cardIds = Append(@, cardId)]
  IN  IF isPileComplete(appended) /\ OrElse(categoryName, null) # null
      THEN [appended EXCEPT !.isComplete = TRUE,
                            !.revealedCategoryName = categoryName]
      ELSE appended

\* UpdatedPile deriving isComplete from the size on every add, instead of
\* only ever setting it.
UpdatedPileRecomputed(pile, cardId, categoryName) ==
  LET appended == [pile EXCEPT !.cardIds = Append(@, cardId)]
  IN  IF isPileComplete(appended)
      THEN [appended EXCEPT !.isComplete = TRUE,
                            !.revealedCategoryName = OrElse(categoryName, null)]
      ELSE [appended EXCEPT !.isComplete = FALSE]

\* The pile after ADD_CARD_TO_PILE appended cardId to it.
UpdatedPile(pile, cardId, categoryName) ==
  LET appended == [pile EXCEPT !.cardIds = Append(@, cardId)]
  IN  IF isPileComplete(appended)
      THEN [appended EXCEPT !.isComplete = TRUE,
                            !.revealedCategoryName = OrElse(categoryName, null)]
      ELSE appended

\* ADD_CARD_TO_PILE returning only the updated pile (`piles: [updatedPile]`).
ReduceAddCardToPileAlone(s, cardId, pileId, categoryName) ==
  LET pileIndex == IndexOfId(s.piles, pileId)
  IN  IF pileIndex = 0 THEN s
      ELSE LET pile == s.piles[pileIndex]
               updatedPile == UpdatedPile(pile, cardId, categoryName)
               newCompletedCount ==
                 IF updatedPile.isComplete /\ ~pile.isComplete
                 THEN s.completedCount + 1
                 ELSE s.completedCount
           IN  [s EXCEPT !.piles = <<updatedPile>>,
                         !.completedCount = newCompletedCount]

ReduceAddCardToPile(s, cardId, pileId, categoryName) ==
  LET pileIndex == IndexOfId(s.piles, pileId)
  IN  IF pileIndex = 0 THEN s
      ELSE LET pile == s.piles[pileIndex]
               updatedPile == UpdatedPile(pile, cardId, categoryName)
               newCompletedCount ==
                 IF updatedPile.isComplete /\ ~pile.isComplete
                 THEN s.completedCount + 1
                 ELSE s.completedCount
           IN  [s EXCEPT !.piles = [@ EXCEPT ![pileIndex] = updatedPile],
                         !.completedCount = newCompletedCount]

\* SPLIT_PILE decrementing completedCount for any pile it removes.
ReduceSplitPileAnyPile(s, pileId) ==
  LET Other(p) == p.id # pileId
      k == IndexOfId(s.piles, pileId)
  IN  [s EXCEPT !.piles = SelectSeq(@, Other),
                !.completedCount = IF k # 0 THEN @ - 1 ELSE @]

\* SPLIT_PILE that forgets to decrement completedCount.
ReduceSplitPileKeepCount(s, pileId) ==
  LET Other(p) == p.id # pileId
  IN  [s EXCEPT !.piles = SelectSeq(@, Other)]

ReduceSplitPile(s, pileId) ==
  LET Other(p) == p.id # pileId
      k == IndexOfId(s.piles, pileId)
  IN  [s EXCEPT !.piles = SelectSeq(@, Other),
                !.completedCount =
                  IF k # 0 /\ s.piles[k].isComplete THEN @ - 1 ELSE @]

ReduceIncrementMistakes(s) == [s EXCEPT !.mistakes = @ + 1]

\* RESET_GAME that clears the piles but keeps the mistakes counter.
ReduceResetGameKeepMistakes(s) ==
  [cards |-> s.cards, piles |-> <<>>, mistakes |-> s.mistakes, completedCount |-> 0]

\* RESET_GAME starting over without the cards.
ReduceResetGameNoCards(s) ==
  [cards |-> <<>>, piles |-> <<>>, mistakes |-> 0, completedCount |-> 0]

ReduceResetGame(s) ==
  [cards |-> s.cards, piles |-> <<>>, mistakes |-> 0, completedCount |-> 0]

\* newPileId is the id CREATE_PILE generates; any other action type falls to
\* `default: return state`.
gameReducer(s, action, newPileId) ==
  CASE action.type = "CREATE_PILE" ->
         ReduceCreatePile(s, action.card1Id, action.card2Id, newPileId)
    [] action.type = "ADD_CARD_TO_PILE" ->
         ReduceAddCardToPile(s, action.cardId, action.pileId, action.categoryName)
    [] action.type = "SPLIT_PILE" -> ReduceSplitPile(s, action.pileId)
    [] action.type = "INCREMENT_MISTAKES" -> ReduceIncrementMistakes(s)
    [] action.type = "RESET_GAME" -> ReduceResetGame(s)
    [] OTHER -> s

\* ---------------------------------------------------------------- helpers
\* A helper call made against the rendered state r: its return value and the
\* action it dispatches (NoAction when it dispatches nothing).
NoAction == [type |-> "NONE"]

\* tryCreatePile counting a mistake for a missing card as well.
tryCreatePileStrict(r, card1Id, card2Id) ==
  LET k1 == IndexOfId(r.cards, card1Id)
      k2 == IndexOfId(r.cards, card2Id)
  IN  IF k1 = 0 \/ k2 = 0
      THEN [ret |-> FALSE, action |-> [type |-> "INCREMENT_MISTAKES"]]
      ELSE IF r.cards[k1].categoryId # r.cards[k2].categoryId
      THEN [ret |-> FALSE, action |-> [type |-> "INCREMENT_MISTAKES"]]
      ELSE [ret |-> TRUE,
            action |-> [type |-> "CREATE_PILE",
                        card1Id |-> card1Id, card2Id |-> card2Id]]

tryCreatePile(r, card1Id, card2Id) ==
  LET k1 == IndexOfId(r.cards, card1Id)
      k2 == IndexOfId(r.cards, card2Id)
  IN  IF k1 = 0 \/ k2 = 0
      THEN [ret |-> FALSE, action |-> NoAction]
      ELSE IF r.cards[k1].categoryId # r.cards[k2].categoryId
      THEN [ret |-> FALSE, action |-> [type |-> "INCREMENT_MISTAKES"]]
      ELSE [ret |-> TRUE,
            action |-> [type |-> "CREATE_PILE",
                        card1Id |-> card1Id, card2Id |-> card2Id]]

\* tryAddCardToPile counting a mistake for an already-complete target pile.
tryAddCardToPileStrict(r, cardId, pileId) ==
  LET kc == IndexOfId(r.cards, cardId)
      kp == IndexOfId(r.piles, pileId)
  IN  IF kc = 0 \/ kp = 0
      THEN [ret |-> FALSE, action |-> NoAction]
      ELSE LET card == r.cards[kc]
               pile == r.piles[kp]
               willComplete == Len(pile.cardIds) + 1 = CategorySize
               categoryName ==
                 IF willComplete
                 THEN getCategoryName(card.categoryId, categories)
                 ELSE undefined
           IN  IF pile.isComplete
               THEN [ret |-> FALSE, action |-> [type |-> "INCREMENT_MISTAKES"]]
               ELSE IF ~canAddCardToPile(card, pile, r.cards)
               THEN [ret |-> FALSE, action |-> [type |-> "INCREMENT_MISTAKES"]]
               ELSE [ret |-> TRUE,
                     action |-> [type |-> "ADD_CARD_TO_PILE",
                                 cardId |-> cardId,
                                 pileId |-> pileId,
                                 categoryName |-> OrElse(categoryName, undefined)]]

tryAddCardToPile(r, cardId, pileId) ==
  LET kc == IndexOfId(r.cards, cardId)
      kp == IndexOfId(r.piles, pileId)
  IN  IF kc = 0 \/ kp = 0
      THEN [ret |-> FALSE, action |-> NoAction]
      ELSE LET card == r.cards[kc]
               pile == r.piles[kp]
               willComplete == Len(pile.cardIds) + 1 = CategorySize
               categoryName ==
                 IF willComplete
                 THEN getCategoryName(card.categoryId, categories)
                 ELSE undefined
           IN  IF pile.isComplete
               THEN [ret |-> FALSE, action |-> NoAction]
               ELSE IF ~canAddCardToPile(card, pile, r.cards)
               THEN [ret |-> FALSE, action |-> [type |-> "INCREMENT_MISTAKES"]]
               ELSE [ret |-> TRUE,
                     action |-> [type |-> "ADD_CARD_TO_PILE",
                                 cardId |-> cardId,
                                 pileId |-> pileId,
                                 categoryName |-> OrElse(categoryName, undefined)]]

\* The loop of handlePileClick: every selected card is tried on the pile
\* against the same rendered state r; the dispatched actions apply in order.
\* (Comparing the states makes TLC compute each one before the next call.)
RECURSIVE AddSelected(_, _, _, _)
AddSelected(s, r, selectedCardIds, pileId) ==
  IF selectedCardIds = <<>> THEN s
  ELSE LET res == tryAddCardToPile(r, Head(selectedCardIds), pileId)
           next == gameReducer(s, res.action, 0)
       IN  IF next = s
           THEN AddSelected(s, r, Tail(selectedCardIds), pileId)
           ELSE AddSelected(next, r, Tail(selectedCardIds), pileId)

\* --------------------------------------------------------- game-data-loader
\* A parsed YAML value is a record of the fields it has; a field that is
\* absent from the file is absent from the record.  Ids, names and titles
\* are strings.

\* The cardinalities the strict validation requires.
RequiredCategories == 45
RequiredCards == 45

\* `!object.field || typeof object.field !== 'string'`
MissingString(object, field) == field \notin DOMAIN object \/ object[field] = ""

\* new Error(text) with the values interpolated into the template.
Error(text, values) == [text |-> text, values |-> values]

\* The validation went through without throwing.
NoError == Error("", <<>>)

\* The first error of a forEach whose iterations throw `errors`.
FirstError(errors) ==
  LET thrown == {n \in 1..Len(errors) : errors[n] # NoError}
  IN  IF thrown = {} THEN NoError
      ELSE errors[CHOOSE n \in thrown : \A m \in thrown : n <= m]

\* The checks on one card (cardIndex counts from 0).
cardError(card, cardIndex, category) ==
  IF MissingString(card, "id")
  THEN Error("Card at index ${cardIndex} in category \"${category.id}\" missing valid \"id\" field",
             <<ToString(cardIndex), category.id>>)
  ELSE IF MissingString(card, "title")
  THEN Error("Card \"${card.id}\" in category \"${category.id}\" missing valid \"title\" field",
             <<card.id, category.id>>)
  ELSE NoError

\* The card count check accepting every count up to the required one.
cardCountErrorAtMost(category, skipStrictValidation) ==
  IF ~skipStrictValidation /\ Len(category.cards) > RequiredCards
  THEN Error("Category \"${category.id}\" has ${category.cards.length} cards, but requires exactly 45",
             <<category.id, ToString(Len(category.cards))>>)
  ELSE NoError

\* The strict check of the number of cards of one category.
cardCountError(category, skipStrictValidation) ==
  IF ~skipStrictValidation /\ Len(category.cards) # RequiredCards
  THEN Error("Category \"${category.id}\" has ${category.cards.length} cards, but requires exactly 45",
             <<category.id, ToString(Len(category.cards))>>)
  ELSE NoError

\* The checks on one category (index counts from 0).
categoryError(category, index, skipStrictValidation) ==
  IF MissingString(category, "id")
  THEN Error("Category at index ${index} missing valid \"id\" field", <<ToString(index)>>)
  ELSE IF MissingString(category, "name")
  THEN Error("Category \"${category.id}\" missing valid \"name\" field", <<category.id>>)
  ELSE IF "cards" \notin DOMAIN category
  THEN Error("Category \"${category.id}\" missing \"cards\" array", <<category.id>>)
  ELSE IF cardCountError(category, skipStrictValidation) # NoError
  THEN cardCountError(category, skipStrictValidation)
  ELSE FirstError([n \in 1..Len(category.cards) |->
                     cardError(category.cards[n], n - 1, category)])

RECURSIVE allCardIds(_, _)
\* The card ids in the order the nested loops of the duplicate check visit
\* them, from category k on.
allCardIds(yamlCategories, k) ==
  IF k > Len(yamlCategories) THEN <<>>
  ELSE [n \in 1..Len(yamlCategories[k].cards) |-> yamlCategories[k].cards[n].id]
         \o allCardIds(yamlCategories, k + 1)

\* The check over seenIds: the first card whose id a card before it has.
duplicateCardError(data) ==
  LET ids == allCardIds(data.categories, 1)
      seen == {n \in 1..Len(ids) : \E m \in 1..(n - 1) : ids[m] = ids[n]}
  IN  IF Cardinality(Range(ids)) = Len(ids) THEN NoError
      ELSE Error("Duplicate card ID found: \"${card.id}\"",
                 <<ids[CHOOSE n \in seen : \A m \in seen : n <= m]>>)

\* No check of the category ids.
duplicateCategoryErrorNone(data) == NoError

\* The check of the category ids against their set.
duplicateCategoryError(data) ==
  LET categoryIds == [k \in 1..Len(data.categories) |-> data.categories[k].id]
  IN  IF Cardinality(Range(categoryIds)) # Len(categoryIds)
      THEN Error("Duplicate category IDs found", <<>>)
      ELSE NoError

\* validateGameData(data, skipStrictValidation): the error it throws, or
\* NoError.
validateGameData(data, skipStrictValidation) ==
  IF "categories" \notin DOMAIN data
  THEN Error("YAML data must have a \"categories\" array", <<>>)
  ELSE IF ~skipStrictValidation /\ Len(data.categories) # RequiredCategories
  THEN Error("Expected 45 categories, but found ${categories.length}. Game requires exactly 45 categories with 45 cards each (2025 total).",
             <<ToString(Len(data.categories))>>)
  ELSE LET shape == FirstError([k \in 1..Len(data.categories) |->
                      categoryError(data.categories[k], k - 1, skipStrictValidation)])
       IN  IF shape # NoError THEN shape
           ELSE IF duplicateCardError(data) # NoError THEN duplicateCardError(data)
           ELSE duplicateCategoryError(data)

\* The cards of a category labelled with the category's name.
categoryCardsByName(category) ==
  [n \in 1..Len(category.cards) |->
     [id |-> category.cards[n].id, title |-> category.cards[n].title,
      categoryId |-> category.name]]

\* category.cards.map(...): each card with the id of its category.
categoryCards(category) ==
  [n \in 1..Len(category.cards) |->
     [id |-> category.cards[n].id, title |-> category.cards[n].title,
      categoryId |-> category.id]]

RECURSIVE flatMapCards(_, _)
\* rawData.categories.flatMap(...), from category k on.
flatMapCards(yamlCategories, k) ==
  IF k > Len(yamlCategories) THEN <<>>
  ELSE categoryCards(yamlCategories[k]) \o flatMapCards(yamlCategories, k + 1)

\* rawData.categories.map(cat => ({ id, name }))
mapCategories(yamlCategories) ==
  [k \in 1..Len(yamlCategories) |-> [id |-> yamlCategories[k].id, name |-> yamlCategories[k].name]]

\* A draw over the whole array at every step of the shuffle.
MathFloorRandomWhole(i, length) == 0..(length - 1)

\* The values of Math.floor(Math.random() * (i + 1)).
MathFloorRandom(i, length) == 0..i

\* An assignment in the place of the swap.
SwapOverwrite(shuffled, i, j) == [shuffled EXCEPT ![i + 1] = shuffled[j + 1]]

\* [shuffled[i], shuffled[j]] = [shuffled[j], shuffled[i]], indexes from 0.
Swap(shuffled, i, j) ==
  [shuffled EXCEPT ![i + 1] = shuffled[j + 1], ![j + 1] = shuffled[i + 1]]

RECURSIVE ShuffleFrom(_, _, _)
\* The loop of shuffleArray from index i down to 1, draws[i] being the j
\* drawn at index i.  A step that draws j = i swaps an element with itself
\* and is passed over.
ShuffleFrom(shuffled, i, draws) ==
  LET swapping == {k \in 1..i : draws[k] # k}
      k == CHOOSE k \in swapping : \A m \in swapping : m <= k
      next == Swap(shuffled, k, draws[k])
  IN  IF swapping = {} THEN shuffled
      ELSE IF next = shuffled THEN ShuffleFrom(shuffled, k - 1, draws)
      ELSE ShuffleFrom(next, k - 1, draws)

\* shuffleArray(array): the array as the call leaves it and the array it
\* returns.
shuffleArray(array, draws) ==
  [array |-> array, shuffled |-> ShuffleFrom(array, Len(array) - 1, draws)]

\* The draws of one call of shuffleArray on an array of `length` elements.
AllDraws(length) ==
  {draws \in [1..(length - 1) -> 0..(length - 1)] :
     \A i \in 1..(length - 1) : draws[i] \in MathFloorRandom(i, length)}

\* ------------------------------------------------------------------ state
VARIABLES
  state,     \* the reducer's state: cards, piles, mistakes, completedCount
  rendered,  \* the state of the last render, which the helpers close over
  pileSeq,   \* piles created so far (source of fresh pile ids)
  call,      \* the call of the running event handler: name, arguments, result
  file,      \* src/data/game-data.yaml: whether it exists, parses, and its data
  loads      \* the outcomes of the calls of loadGameData so far

vars == <<state, rendered, pileSeq, call, file, loads>>

initialState ==
  [cards |-> initialCards, piles |-> <<>>, mistakes |-> 0, completedCount |-> 0]

\* No handler has run since the last render.
NoCall == [op |-> "none", args |-> <<>>, ret |-> FALSE]

\* The game is played on the cards handed to the provider; no file is read.
NoFile == [exists |-> FALSE, parses |-> FALSE, data |-> <<>>]

Init ==
  /\ state = initialState
  /\ rendered = initialState
  /\ pileSeq = 0
  /\ call = NoCall
  /\ file = NoFile
  /\ loads = <<>>

\* ------------------------------------------------------ the player's moves
\* The ungrouped cards of a category, in display order.
UngroupedOf(s, categoryId) ==
  LET InCat(card) == card.categoryId = categoryId
  IN  SelectSeq(getUngroupedCards(s), InCat)

\* The first ungrouped card of each category.
NextUngrouped(s) ==
  {UngroupedOf(s, c.id)[1].id :
     c \in {d \in Range(categories) : UngroupedOf(s, d.id) # <<>>}}

PileInputs == 0..MaxPiles

\* A pile as created, or with one card added.
IsShort(pile) == Len(pile.cardIds) <= CreatedSize + 1

\* Bound on how a single call grows a pile: a pile as created takes any
\* card the caller passes; the only pile on the board, once nearly full,
\* takes the next ungrouped card.
MayGrow(cardId, pileId) ==
  LET k == IndexOfId(state.piles, pileId)
  IN  IF k = 0 THEN cardId \in UserCards
      ELSE IF Len(state.piles[k].cardIds) = CreatedSize THEN cardId \in UserCards
      ELSE /\ Len(state.piles) = 1
           /\ Len(state.piles[k].cardIds) >= CategorySize - NearFull
           /\ cardId \in NextUngrouped(state)

\* Bounds on what an action may add to the state: piles are created next to
\* short piles only, MaxPiles times over a run.
WithinBounds(action) ==
  CASE action.type = "CREATE_PILE" ->
         /\ pileSeq < MaxPiles
         /\ \A i \in 1..Len(state.piles) : IsShort(state.piles[i])
    [] action.type = "INCREMENT_MISTAKES" -> state.mistakes < MaxMistakes
    [] action.type = "ADD_CARD_TO_PILE" -> MayGrow(action.cardId, action.pileId)
    [] OTHER -> TRUE

\* An event handler (or act block) runs when the last render is done
\* (call = NoCall), against the rendered state, and leaves `next` as the
\* reducer's state; React renders before the next handler runs.
Handled(next, op, args, ret) ==
  /\ state' = next
  /\ pileSeq' = IF Len(next.piles) > Len(state.piles) THEN pileSeq + 1 ELSE pileSeq
  /\ call' = [op |-> op, args |-> args, ret |-> ret]
  /\ UNCHANGED <<rendered, file, loads>>

\* One call of tryCreatePile.
TryCreatePile(card1Id, card2Id) ==
  LET res == tryCreatePile(rendered, card1Id, card2Id)
  IN  /\ call = NoCall
      /\ WithinBounds(res.action)
      /\ Handled(gameReducer(state, res.action, pileSeq + 1),
                 "tryCreatePile", <<card1Id, card2Id>>, res.ret)

\* One call of tryAddCardToPile.
TryAddCardToPile(cardId, pileId) ==
  LET res == tryAddCardToPile(rendered, cardId, pileId)
  IN  /\ call = NoCall
      /\ WithinBounds(res.action)
      /\ Handled(gameReducer(state, res.action, 0),
                 "tryAddCardToPile", <<cardId, pileId>>, res.ret)

\* dispatch({ type: 'SPLIT_PILE', pileId })
SplitPile(pileId) ==
  /\ call = NoCall
  /\ Handled(gameReducer(state, [type |-> "SPLIT_PILE", pileId |-> pileId], 0),
             "SPLIT_PILE", <<pileId>>, FALSE)

\* dispatch({ type: 'RESET_GAME' })
ResetGame ==
  /\ call = NoCall
  /\ Handled(gameReducer(state, [type |-> "RESET_GAME"], 0),
             "RESET_GAME", <<>>, FALSE)

\* The selections the player clicks onto a short pile, the only one on the
\* board: the next ungrouped cards of the pile's category, as many as bring
\* the pile near CategorySize, to it, or past it.
Selections(pileId) ==
  LET k == IndexOfId(rendered.piles, pileId)
      pile == rendered.piles[k]
      u == UngroupedOf(rendered, getPileCategoryId(pile, rendered.cards))
      len == Len(pile.cardIds)
      sizes == {t - len : t \in (CategorySize - NearFull)..(CategorySize + MaxOver)}
  IN  IF k = 0 \/ Len(rendered.piles) # 1 THEN {}
      ELSE IF ~IsShort(pile) THEN {}
      ELSE {[i \in 1..n |-> u[i].id] : n \in {m \in sizes : m >= 2 /\ m <= Len(u)}}

\* A click on a pile with several cards selected.
handlePileClick(pileId) ==
  /\ call = NoCall
  /\ \E selectedCardIds \in Selections(pileId) :
          Handled(AddSelected(state, rendered, selectedCardIds, pileId),
               "handlePileClick", <<pileId>> \o selectedCardIds, FALSE)

\* The selections the player submits, in the order of selection, on a board
\* of at most one pile: the first three ungrouped cards of the first
\* category; the first two of them and then the first ungrouped card of
\* another category; and the same three cards with the foreign card second.
CreateSelections ==
  LET u == UngroupedOf(rendered, categories[1].id)
      other == NextUngrouped(rendered) \ {u[1].id}
  IN  IF Len(u) < 3 \/ Len(rendered.piles) > 1 THEN {}
      ELSE {<<u[1].id, u[2].id, u[3].id>>} \cup
           {<<u[1].id, u[2].id, x>> : x \in other} \cup
           {<<u[1].id, x, u[2].id>> : x \in other}

\* The "Create Pile" button: a pile from the first two selected cards, the
\* remaining cards tried on state.piles[state.piles.length - 1] of the
\* rendered state.  With no pile rendered that is undefined and newPile.id
\* throws at the first remaining card, after CREATE_PILE was dispatched.
\* `attempted` records the pile id of each tryAddCardToPile call made.
handleCreatePileFromSelected(cards) ==
  LET first == cards[1]
      second == cards[2]
      rest == SubSeq(cards, 3, Len(cards))
      success == tryCreatePile(rendered, first, second)
      created == gameReducer(state, success.action, pileSeq + 1)
      thrown == rendered.piles = <<>>
      newPile == rendered.piles[Len(rendered.piles)]
      attempted == IF ~success.ret \/ thrown \/ rest = <<>> THEN <<>>
                   ELSE [n \in 1..Len(rest) |-> newPile.id]
      next == IF ~success.ret \/ thrown \/ rest = <<>> THEN created
              ELSE AddSelected(created, rendered, rest, newPile.id)
  IN  /\ call = NoCall
      /\ Cardinality(Range(cards)) = Len(cards)
      /\ WithinBounds(success.action)
      /\ next.mistakes <= MaxMistakes
      /\ state' = next
      /\ pileSeq' = IF Len(next.piles) > Len(state.piles) THEN pileSeq + 1 ELSE pileSeq
      /\ call' = [op |-> "handleCreatePileFromSelected", args |-> cards,
                  ret |-> success.ret, attempted |-> attempted]
      /\ UNCHANGED <<rendered, file, loads>>

\* React renders: the helpers are rebuilt over the current state.
Render ==
  /\ call # NoCall
  /\ rendered' = state
  /\ call' = NoCall
  /\ UNCHANGED <<state, pileSeq, file, loads>>

TryCreate == \E c1, c2 \in UserCards : TryCreatePile(c1, c2)
TryAdd ==
  /\ call = NoCall
  /\ \E c \in UserCards \cup NextUngrouped(state), p \in PileInputs :
       TryAddCardToPile(c, p)
Split == \E p \in PileInputs : SplitPile(p)
PileClick == \E p \in PileInputs : handlePileClick(p)
CreateFromSelected ==
  /\ call = NoCall
  /\ \E cards \in CreateSelections : handleCreatePileFromSelected(cards)

Next ==
  TryCreate \/ TryAdd \/ Split \/ ResetGame \/ PileClick \/ CreateFromSelected \/ Render

Spec == Init /\ [][Next]_vars

\* ------------------------------------------------- the reducer on its own
\* Actions dispatched straight to the reducer, each followed by a render.
Dispatched(action) ==
  LET next == gameReducer(state, action, pileSeq + 1)
  IN  /\ state' = next
      /\ rendered' = next
      /\ pileSeq' = IF Len(next.piles) > Len(state.piles) THEN pileSeq + 1 ELSE pileSeq
      /\ UNCHANGED <<call, file, loads>>

\* Bound on ADD_CARD_TO_PILE dispatched raw: a pile as created takes any
\* card id; the only pile on the board grows, up to CategorySize + MaxOver
\* cards, by the next ungrouped card of its category.
MayGrowRaw(cardId, pileId) ==
  LET k == IndexOfId(state.piles, pileId)
  IN  IF k = 0 THEN TRUE
      ELSE IF Len(state.piles[k].cardIds) = CreatedSize THEN TRUE
      ELSE LET u == UngroupedOf(state, getPileCategoryId(state.piles[k], state.cards))
           IN  /\ Len(state.piles) = 1
               /\ Len(state.piles[k].cardIds) < CategorySize + MaxOver
               /\ u # <<>>
               /\ cardId = u[1].id

DispatchCreatePile ==
  /\ call = NoCall
  /\ \E c1, c2 \in UserCards :
       LET action == [type |-> "CREATE_PILE", card1Id |-> c1, card2Id |-> c2]
       IN  WithinBounds(action) /\ Dispatched(action)

DispatchAddCardToPile ==
  /\ call = NoCall
  /\ \E c \in UserCards \cup NextUngrouped(state), p \in PileInputs :
       /\ MayGrowRaw(c, p)
       /\ \E n \in {undefined} \cup {d.name : d \in Range(categories)} :
            Dispatched([type |-> "ADD_CARD_TO_PILE", cardId |-> c, pileId |-> p,
                        categoryName |-> n])

DispatchSplitPile ==
  /\ call = NoCall
  /\ \E p \in PileInputs : Dispatched([type |-> "SPLIT_PILE", pileId |-> p])

DispatchIncrementMistakes ==
  /\ call = NoCall
  /\ state.mistakes < MaxMistakes
  /\ Dispatched([type |-> "INCREMENT_MISTAKES"])

DispatchResetGame ==
  /\ call = NoCall
  /\ Dispatched([type |-> "RESET_GAME"])

NextReducer ==
  \/ DispatchCreatePile
  \/ DispatchAddCardToPile
  \/ DispatchSplitPile
  \/ DispatchIncrementMistakes
  \/ DispatchResetGame

SpecReducer == Init /\ [][NextReducer]_vars

\* ------------------------------------------- the utility functions alone
\* The functions of game-utils.ts called on states built by hand, as their
\* unit tests do: the first cards of testCards (card-1, card-2, card-5 and
\* any further card in cat-1, card-3 and card-4 in cat-2), piles over two of
\* the card ids, which the shorter card lists do not all resolve.
testCards(total) ==
  [i \in 1..total |->
     [id |-> i, categoryId |-> IF i \in {3, 4} THEN "cat-2" ELSE "cat-1"]]

testPileCardIds == {1, 3}

testPile(cardIds) ==
  [id |-> 0, cardIds |-> cardIds, isComplete |-> FALSE, revealedCategoryName |-> null]

\* Piles with up to MaxPileLen card ids each.
testPiles ==
  {testPile(cardIds) :
     cardIds \in UNION {[1..n -> testPileCardIds] : n \in 0..MaxPileLen}}

\* States with piles (completedCount 0), and states without piles with any
\* completedCount up to MaxCompleted.
testStates ==
  {[cards |-> testCards(total),
    piles |-> [k \in 1..n |-> [ps[k] EXCEPT !.id = k]],
    mistakes |-> 0,
    completedCount |-> 0] :
     total \in 0..MaxTotalCards,
     n \in 1..MaxTestPiles,
     ps \in [1..MaxTestPiles -> testPiles]}
  \cup
  {[cards |-> testCards(total), piles |-> <<>>, mistakes |-> 0,
    completedCount |-> c] :
     total \in 0..MaxTotalCards, c \in 0..MaxCompleted}

InitUtils ==
  /\ state \in testStates
  /\ rendered = state
  /\ pileSeq = Len(state.piles)
  /\ call = NoCall
  /\ file = NoFile
  /\ loads = <<>>

\* A utility function returns ret for the arguments args.
Returned(op, args, ret) ==
  /\ call' = [op |-> op, args |-> args, ret |-> ret]
  /\ UNCHANGED <<state, rendered, pileSeq, file, loads>>

\* canAddCardToPile(state.cards[i], state.piles[k], state.cards)
CallCanAddCardToPile ==
  /\ call.op = "none"
  /\ \E i \in 1..Len(state.cards), k \in 1..Len(state.piles) :
       Returned("canAddCardToPile", <<i, k>>,
                canAddCardToPile(state.cards[i], state.piles[k], state.cards))

\* getPileCategoryId(state.piles[k], state.cards)
CallGetPileCategoryId ==
  /\ call.op = "none"
  /\ \E k \in 1..Len(state.piles) :
       Returned("getPileCategoryId", <<k>>,
                getPileCategoryId(state.piles[k], state.cards))

CallGetUngroupedCards ==
  /\ call.op = "none"
  /\ Returned("getUngroupedCards", <<>>, getUngroupedCards(state))

CallCalculateCompletionPercentage ==
  /\ call.op = "none"
  /\ Returned("calculateCompletionPercentage", <<>>,
              calculateCompletionPercentage(state))

\* Card ids looked for: the two the piles are built of, a card no pile
\* lists (card-2) and an id that is no card (0).
testCardIdInputs == testPileCardIds \cup {0, 2}

\* getPileCards(pileId, state), for the pile ids of the state and two ids no
\* pile has.
CallGetPileCards ==
  /\ call.op = "none"
  /\ \E pileId \in 0..(Len(state.piles) + 1) :
       Returned("getPileCards", <<pileId>>, getPileCards(pileId, state))

CallFindPileContainingCard ==
  /\ call.op = "none"
  /\ \E cardId \in testCardIdInputs :
       Returned("findPileContainingCard", <<cardId>>,
                findPileContainingCard(cardId, state))

\* gameReducer(state, {type: 'CREATE_PILE', card1Id, card2Id}): the reducer
\* as a function of the state it is given; ret is the state it returns.
CallReduceCreatePile ==
  /\ call.op = "none"
  /\ \E card1Id, card2Id \in testCardIdInputs :
       Returned("CREATE_PILE", <<card1Id, card2Id>>,
                gameReducer(state, [type |-> "CREATE_PILE", card1Id |-> card1Id,
                                    card2Id |-> card2Id], pileSeq + 1))

NextUtils ==
  \/ CallCanAddCardToPile
  \/ CallGetPileCategoryId
  \/ CallGetUngroupedCards
  \/ CallCalculateCompletionPercentage
  \/ CallGetPileCards
  \/ CallFindPileContainingCard
  \/ CallReduceCreatePile

SpecUtils == InitUtils /\ [][NextUtils]_vars

\* ------------------------------------------------------ the loader alone
\* Bounds of the source files smaller than the full dataset, and of the
\* arrays shuffled by every possible sequence of draws.
MaxSourceCategories == 2
MaxSourceCards == 2
MaxDraws == 3

sourceCategoryId(k) == "category-" \o ToString(k)
sourceCardId(k, n) == "card-" \o ToString(k) \o "-" \o ToString(n)

\* Category k of a source file, with `size` cards.
sourceCategory(k, size) ==
  [id |-> sourceCategoryId(k), name |-> "Name",
   cards |-> [n \in 1..size |-> [id |-> sourceCardId(k, n), title |-> "Title"]]]

\* A well-formed dataset whose category k has sizes[k] cards.
sourceData(sizes) ==
  [categories |-> [k \in 1..Len(sizes) |-> sourceCategory(k, sizes[k])]]

\* The sizes of the small datasets.
smallSizes ==
  UNION {[1..count -> 0..MaxSourceCards] : count \in 0..MaxSourceCategories}

\* The sizes of the full dataset and of the datasets one category or one
\* card away from it.
fullSizes ==
  {[k \in 1..count |-> RequiredCards] :
     count \in {RequiredCategories - 1, RequiredCategories, RequiredCategories + 1}}
  \cup {[k \in 1..RequiredCategories |->
           IF k = RequiredCategories THEN size ELSE RequiredCards] :
          size \in {RequiredCards - 1, RequiredCards + 1}}

\* The object without one of its fields.
Without(object, field) == [f \in DOMAIN object \ {field} |-> object[f]]

Defect(kind, k, n) == [kind |-> kind, category |-> k, card |-> n]
NoDefect == Defect("none", 0, 0)

\* The place of the first card of the dataset.
FirstCardPlace(sizes) ==
  LET k == CHOOSE k \in 1..Len(sizes) :
             sizes[k] > 0 /\ \A m \in 1..(k - 1) : sizes[m] = 0
  IN  <<k, 1>>

\* What may be wrong with a small source file: the file as a whole (tried
\* on the dataset without categories), one category, or one card.
Defects(sizes) ==
  IF Len(sizes) > MaxSourceCategories THEN {NoDefect}
  ELSE {NoDefect}
       \cup {Defect(kind, 0, 0) : kind \in IF sizes = <<>> THEN {"noFile", "badYaml", "noCategories"} ELSE {}}
       \cup {Defect(kind, k, 0) : kind \in {"categoryId", "categoryName", "categoryCards"},
                                  k \in 1..Len(sizes)}
       \cup {Defect("categoryDuplicate", k, 0) : k \in 2..Len(sizes)}
       \cup UNION {{Defect(kind, k, n) : kind \in {"cardId", "cardTitle"}, n \in 1..sizes[k]} :
                     k \in 1..Len(sizes)}
       \cup UNION {{Defect("cardDuplicate", k, n) :
                      n \in {n \in 1..sizes[k] : <<k, n>> # FirstCardPlace(sizes)}} :
                     k \in 1..Len(sizes)}

\* The dataset with the defect.
WithDefect(data, defect) ==
  LET k == defect.category
      n == defect.card
      first == FirstCardPlace([c \in 1..Len(data.categories) |-> Len(data.categories[c].cards)])
  IN  CASE defect.kind = "noCategories" -> Without(data, "categories")
        [] defect.kind = "categoryId" ->
             [data EXCEPT !.categories[k] = Without(@, "id")]
        [] defect.kind = "categoryName" ->
             [data EXCEPT !.categories[k].name = ""]
        [] defect.kind = "categoryCards" ->
             [data EXCEPT !.categories[k] = Without(@, "cards")]
        [] defect.kind = "categoryDuplicate" ->
             [data EXCEPT !.categories[k].id = data.categories[1].id]
        [] defect.kind = "cardId" ->
             [data EXCEPT !.categories[k].cards[n] = Without(@, "id")]
        [] defect.kind = "cardTitle" ->
             [data EXCEPT !.categories[k].cards[n].title = ""]
        [] defect.kind = "cardDuplicate" ->
             [data EXCEPT !.categories[k].cards[n].id =
                            data.categories[first[1]].cards[first[2]].id]
        [] OTHER -> data

sourceFile(sizes, defect) ==
  [exists |-> defect.kind # "noFile",
   parses |-> defect.kind # "badYaml",
   data |-> WithDefect(sourceData(sizes), defect)]

InitLoader ==
  /\ state = initialState
  /\ rendered = initialState
  /\ pileSeq = 0
  /\ call = NoCall
  /\ \E sizes \in smallSizes \cup fullSizes :
       \E defect \in Defects(sizes) : file = sourceFile(sizes, defect)
  /\ loads = <<>>

\* The draws tried on an array: every sequence of draws on an array of up
\* to MaxDraws + 1 elements; on a longer array the draws that swap nothing
\* and the draws that swap the last element with the first.
Draws(length) ==
  IF length - 1 <= MaxDraws THEN AllDraws(length)
  ELSE {[i \in 1..(length - 1) |-> i],
        [i \in 1..(length - 1) |-> IF i = length - 1 THEN 0 ELSE i]}

\* loadGameData threw.
Thrown(skipStrictValidation, error) ==
  [skipStrictValidation |-> skipStrictValidation, threw |-> TRUE, message |-> error]

\* One call of loadGameData ends with `outcome`.
Loaded(outcome) ==
  /\ loads' = Append(loads, outcome)
  /\ UNCHANGED <<state, rendered, pileSeq, call, file>>

\* loadGameData(skipStrictValidation).
loadGameData(skipStrictValidation) ==
  LET rawData == file.data
      error == validateGameData(rawData, skipStrictValidation)
      cards == flatMapCards(rawData.categories, 1)
  IN  IF ~file.exists
      THEN Loaded(Thrown(skipStrictValidation,
             Error("Game data file not found at ${yamlPath}. Please ensure src/data/game-data.yaml exists.",
                   <<"src/data/game-data.yaml">>)))
      ELSE IF ~file.parses
      THEN Loaded(Thrown(skipStrictValidation,
             Error("Failed to parse YAML file: ${error.message}", <<"YAMLException">>)))
      ELSE IF error # NoError
      THEN Loaded(Thrown(skipStrictValidation, error))
      ELSE \E draws \in Draws(Len(cards)) :
             LET shuffling == shuffleArray(cards, draws)
             IN  Loaded([skipStrictValidation |-> skipStrictValidation,
                         threw |-> FALSE,
                         categories |-> mapCategories(rawData.categories),
                         cards |-> shuffling.shuffled,
                         flattened |-> shuffling.array])

\* The file is loaded up to twice: in strict mode (the default) ...
LoadStrict ==
  /\ Len(loads) < 2
  /\ loadGameData(FALSE)

\* ... or in relaxed mode, as the game page loads it.
LoadRelaxed ==
  /\ Len(loads) < 2
  /\ loadGameData(TRUE)

NextLoader == LoadStrict \/ LoadRelaxed

SpecLoader == InitLoader /\ [][NextLoader]_vars

\* ------------------------------------------- a game on the loaded dataset
\* Bound on the cards per category of the dataset the game page loads.
MaxGameCards == 1

\* A well-formed dataset of the categories of the game, category k with
\* sizes[k] cards.
gameData(sizes) ==
  [categories |->
     [k \in 1..Len(categories) |->
        [id |-> categories[k].id, name |-> categories[k].name,
         cards |-> [n \in 1..sizes[k] |->
                      [id |-> sourceCardId(k, n), title |-> "Title"]]]]]

\* The game page: loadGameData(true) on the server, the result handed to
\* GameProvider as initialData, from which the reducer's first state is
\* built.
InitLoadedGame ==
  \E sizes \in [1..Len(categories) -> 0..MaxGameCards] :
    LET rawData == gameData(sizes)
        cards == flatMapCards(rawData.categories, 1)
    IN  /\ file = [exists |-> TRUE, parses |-> TRUE, data |-> rawData]
        /\ validateGameData(rawData, TRUE) = NoError
        /\ \E draws \in Draws(Len(cards)) :
             /\ loads = <<[skipStrictValidation |-> TRUE,
                           threw |-> FALSE,
                           categories |-> mapCategories(rawData.categories),
                           cards |-> shuffleArray(cards, draws).shuffled,
                           flattened |-> shuffleArray(cards, draws).array]>>
             /\ state = [cards |-> loads[1].cards, piles |-> <<>>,
                         mistakes |-> 0, completedCount |-> 0]
        /\ rendered = state
        /\ pileSeq = 0
        /\ call = NoCall

\* tryCreatePile on the empty board: the first displayed card with any card,
\* itself included.
GameCreatePile ==
  /\ call = NoCall
  /\ state.piles = <<>>
  /\ state.cards # <<>>
  /\ \E k \in 1..Len(state.cards) :
       TryCreatePile(state.cards[1].id, state.cards[k].id)

\* tryAddCardToPile of the first card of a pile to that pile.
GameAddCard ==
  /\ call = NoCall
  /\ \E k \in 1..Len(state.piles) :
       LET pile == state.piles[k]
           res == tryAddCardToPile(rendered, pile.cardIds[1], pile.id)
       IN  Handled(gameReducer(state, res.action, 0),
                   "tryAddCardToPile", <<pile.cardIds[1], pile.id>>, res.ret)

NextLoadedGame == GameCreatePile \/ GameAddCard \/ Render

SpecLoadedGame == InitLoadedGame /\ [][NextLoadedGame]_vars

\* ------------------------------------------------------------ properties
PileIndexes(s) == 1..Len(s.piles)

\* The categoryId of a card id in s.cards, null when there is no such card.
CategoryOf(s, cardId) ==
  LET k == IndexOfId(s.cards, cardId)
  IN  IF k # 0 THEN s.cards[k].categoryId ELSE null

\* C1: in every state reached through tryCreatePile, tryAddCardToPile,
\* SPLIT_PILE and RESET_GAME, each card id appears in the cardIds of at most
\* one pile.
C1_CardInAtMostOnePile ==
  \A i, j \in PileIndexes(state) :
    i # j => Range(state.piles[i].cardIds) \cap Range(state.piles[j].cardIds) = {}

\* C2: in every reachable state every pile has at most CategorySize cards,
\* and a pile has exactly CategorySize cards if and only if its isComplete
\* flag is true.
C2_SizeBoundAndCompleteIffFull ==
  \A i \in PileIndexes(state) :
    LET pile == state.piles[i]
    IN  /\ Len(pile.cardIds) <= CategorySize
        /\ (Len(pile.cardIds) = CategorySize) <=> pile.isComplete

\* The number of piles of s whose isComplete is true.
CompletePiles(s) == Cardinality({i \in PileIndexes(s) : s.piles[i].isComplete})

\* C3: after every sequence of CREATE_PILE, ADD_CARD_TO_PILE, SPLIT_PILE,
\* INCREMENT_MISTAKES and RESET_GAME actions, completedCount equals the
\* number of piles whose isComplete is true.
C3_CompletedCountCountsCompletePiles ==
  state.completedCount = CompletePiles(state)

\* A pile was completed, counted, and an action has been reduced since
\* (here a mistake), next to the counted pile.
C3_Witness ==
  /\ state.completedCount = 1
  /\ CompletePiles(state) = 1
  /\ state.mistakes = 1

\* C4: after every transition, for every pile, revealedCategoryName is
\* non-null if and only if isComplete is true.
C4_NameRevealedIffComplete ==
  \A i \in PileIndexes(state) :
    (state.piles[i].revealedCategoryName # null) <=> state.piles[i].isComplete

\* C5: in every state reached through tryCreatePile, tryAddCardToPile,
\* SPLIT_PILE and RESET_GAME, all cards referenced by any one pile have the
\* same categoryId (each has the categoryId of the pile's first card).
C5_PileOfOneCategory ==
  \A i \in PileIndexes(state) :
    LET first == CategoryOf(state, state.piles[i].cardIds[1])
    IN  \A n \in 2..Len(state.piles[i].cardIds) :
          CategoryOf(state, state.piles[i].cardIds[n]) = first

\* tryAddCardToPile has just put a third card on a pile, after a card of
\* another category was turned away.
C5_Witness ==
  /\ call.op = "tryAddCardToPile"
  /\ call.ret
  /\ state.mistakes = 1
  /\ \E i \in PileIndexes(state) :
       /\ state.piles[i].id = call.args[2]
       /\ Len(state.piles[i].cardIds) = CreatedSize + 1

\* C6: a complete pile is locked: it holds exactly CategorySize cards, a
\* step that keeps the pile keeps its cardIds, and every tryAddCardToPile
\* targeting it returns false.
C6_CompletePileLocked ==
  [][/\ \A i \in PileIndexes(state) : \A j \in PileIndexes(state') :
          (state.piles[i].isComplete /\ state'.piles[j].id = state.piles[i].id)
            => state'.piles[j].cardIds = state.piles[i].cardIds
     /\ \A j \in PileIndexes(state') :
          state'.piles[j].isComplete => Len(state'.piles[j].cardIds) = CategorySize
     /\ \A i \in PileIndexes(state) :
          (/\ state.piles[i].isComplete
           /\ call'.op = "tryAddCardToPile"
           /\ call'.args[2] = state.piles[i].id) => ~call'.ret]_vars

\* C7: isComplete is monotonic per pile: once a pile's isComplete is true it
\* is true in every later state in which a pile with that id exists.
C7_CompleteStaysComplete ==
  [][\A i \in PileIndexes(state) : \A j \in PileIndexes(state') :
       (state.piles[i].isComplete /\ state'.piles[j].id = state.piles[i].id)
         => state'.piles[j].isComplete]_vars

\* A complete pile has taken a further card and is still flagged complete.
C7_Witness ==
  \E i \in PileIndexes(state) :
    state.piles[i].isComplete /\ Len(state.piles[i].cardIds) > CategorySize

\* After a handler, before the render, `rendered` is the state the handler
\* was called in and `state` the one it left.

\* C8: tryCreatePile(c1, c2) with both cards present and of equal categoryId
\* returns true and appends exactly one new pile at the end of state.piles,
\* with cardIds [c1, c2], isComplete false and revealedCategoryName null;
\* existing piles, mistakes and completedCount are unchanged.
C8_CreatePileSucceeds ==
  (/\ call.op = "tryCreatePile"
   /\ CategoryOf(rendered, call.args[1]) # null
   /\ CategoryOf(rendered, call.args[1]) = CategoryOf(rendered, call.args[2]))
  => /\ call.ret
     /\ Len(state.piles) = Len(rendered.piles) + 1
     /\ SubSeq(state.piles, 1, Len(rendered.piles)) = rendered.piles
     /\ LET pile == state.piles[Len(state.piles)]
        IN  /\ pile.cardIds = <<call.args[1], call.args[2]>>
            /\ ~pile.isComplete
            /\ pile.revealedCategoryName = null
            /\ \A i \in PileIndexes(rendered) : rendered.piles[i].id # pile.id
     /\ state.mistakes = rendered.mistakes
     /\ state.completedCount = rendered.completedCount
     /\ state.cards = rendered.cards

\* tryCreatePile has just returned true on a board that already had a pile.
C8_Witness ==
  /\ call.op = "tryCreatePile"
  /\ call.ret
  /\ call.args[1] # call.args[2]
  /\ Len(rendered.piles) = 1
  /\ Len(state.piles) = 2

\* C9: a failing tryCreatePile(c1, c2) returns false and creates no pile; it
\* increments mistakes by exactly one if both cards exist and their
\* categoryIds differ, and leaves the whole state unchanged if either card
\* id is missing.
C9_CreatePileFails ==
  (/\ call.op = "tryCreatePile"
   /\ \/ CategoryOf(rendered, call.args[1]) = null
      \/ CategoryOf(rendered, call.args[2]) = null
      \/ CategoryOf(rendered, call.args[1]) # CategoryOf(rendered, call.args[2]))
  => /\ ~call.ret
     /\ state.piles = rendered.piles
     /\ IF \/ CategoryOf(rendered, call.args[1]) = null
           \/ CategoryOf(rendered, call.args[2]) = null
        THEN state = rendered
        ELSE state = [rendered EXCEPT !.mistakes = @ + 1]

\* tryCreatePile has just turned away two cards of different categories, on
\* a board with a pile.
C9_Witness ==
  /\ call.op = "tryCreatePile"
  /\ ~call.ret
  /\ CategoryOf(rendered, call.args[1]) = "cat-1"
  /\ CategoryOf(rendered, call.args[2]) = "cat-2"
  /\ state.mistakes = rendered.mistakes + 1
  /\ Len(state.piles) = 1

\* C10: tryAddCardToPile(cardId, pileId) with an existing card, an existing
\* incomplete pile and a card of the pile's category returns true and
\* appends cardId as the last element of that pile's cardIds; the pile keeps
\* its id and position, the other piles and mistakes are unchanged, and the
\* pile grows by exactly one card.
C10_AddCardSucceeds ==
  LET k == IndexOfId(rendered.piles, call.args[2])
  IN  (/\ call.op = "tryAddCardToPile"
       /\ CategoryOf(rendered, call.args[1]) # null
       /\ k # 0
       /\ ~rendered.piles[k].isComplete
       /\ CategoryOf(rendered, call.args[1])
            = getPileCategoryId(rendered.piles[k], rendered.cards))
      => /\ call.ret
         /\ Len(state.piles) = Len(rendered.piles)
         /\ state.piles[k].id = rendered.piles[k].id
         /\ state.piles[k].cardIds
              = Append(rendered.piles[k].cardIds, call.args[1])
         /\ \A i \in PileIndexes(rendered) :
              i # k => state.piles[i] = rendered.piles[i]
         /\ state.mistakes = rendered.mistakes
         /\ state.cards = rendered.cards

\* tryAddCardToPile has just returned true for the second of two piles.
C10_Witness ==
  /\ call.op = "tryAddCardToPile"
  /\ call.ret
  /\ Len(rendered.piles) = 2
  /\ IndexOfId(rendered.piles, call.args[2]) = 2
  /\ Len(state.piles[2].cardIds) = Len(rendered.piles[2].cardIds) + 1

\* C11: a failing tryAddCardToPile returns false and leaves every pile
\* unchanged; it increments mistakes by exactly one if and only if the card
\* and the pile both exist, the pile is not complete and the card's
\* categoryId differs from the pile's category; a missing card, a missing
\* pile or an already-complete target pile changes nothing.
C11_AddCardFails ==
  LET k == IndexOfId(rendered.piles, call.args[2])
      missing == CategoryOf(rendered, call.args[1]) = null \/ k = 0
      mismatch == /\ ~missing
                  /\ ~rendered.piles[k].isComplete
                  /\ CategoryOf(rendered, call.args[1])
                       # getPileCategoryId(rendered.piles[k], rendered.cards)
      fails == missing \/ rendered.piles[k].isComplete \/ mismatch
  IN  call.op = "tryAddCardToPile"
      => /\ fails <=> ~call.ret
         /\ ~call.ret =>
              /\ state.piles = rendered.piles
              /\ IF mismatch
                 THEN state = [rendered EXCEPT !.mistakes = @ + 1]
                 ELSE state = rendered

\* tryAddCardToPile has just turned away a card of the right category from a
\* complete pile, without a mistake.
C11_Witness ==
  LET k == IndexOfId(rendered.piles, call.args[2])
  IN  /\ call.op = "tryAddCardToPile"
      /\ ~call.ret
      /\ k # 0
      /\ rendered.piles[k].isComplete
      /\ CategoryOf(rendered, call.args[1])
           = getPileCategoryId(rendered.piles[k], rendered.cards)
      /\ state.mistakes = rendered.mistakes

\* The pile a tryAddCardToPile call or a pile click targets.
TargetPileId ==
  IF call.op = "handlePileClick" THEN call.args[1] ELSE call.args[2]

\* C12: when an accepted add brings a pile's size to exactly CategorySize,
\* the pile has isComplete = true and revealedCategoryName equal to the name
\* of the category of its cards, and completedCount increases by exactly
\* one; an accepted add that does not reach CategorySize leaves isComplete,
\* revealedCategoryName and completedCount unchanged.
C12_CompletionOnAcceptedAdd ==
  LET k == IndexOfId(rendered.piles, TargetPileId)
      before == rendered.piles[k]
      after == state.piles[k]
  IN  (/\ call.op \in {"tryAddCardToPile", "handlePileClick"}
       /\ k # 0
       /\ Len(after.cardIds) > Len(before.cardIds))
      => /\ Len(after.cardIds) = CategorySize =>
              /\ after.isComplete
              /\ after.revealedCategoryName
                   = getCategoryName(getPileCategoryId(after, state.cards), categories)
              /\ state.completedCount = rendered.completedCount + 1
         /\ Len(after.cardIds) < CategorySize =>
              /\ after.isComplete = before.isComplete
              /\ after.revealedCategoryName = before.revealedCategoryName
              /\ state.completedCount = rendered.completedCount

\* C13: when a batch of tryAddCardToPile calls issued in one synchronous
\* loop, all against the same rendered state, brings a created pile to
\* exactly CategorySize cards, the final state has that pile with isComplete
\* true and completedCount equal to 1.
C13_BatchCompletesPile ==
  LET k == IndexOfId(rendered.piles, call.args[1])
  IN  (/\ call.op = "handlePileClick"
       /\ Len(rendered.piles[k].cardIds) < CategorySize
       /\ Len(state.piles[k].cardIds) = CategorySize)
      => /\ state.piles[k].isComplete
         /\ state.completedCount = 1

\* A click has just put 43 selected cards on a two-card pile.
C13_Witness ==
  LET k == IndexOfId(rendered.piles, call.args[1])
  IN  /\ call.op = "handlePileClick"
      /\ Len(rendered.piles[k].cardIds) = CreatedSize
      /\ Len(call.args) = 1 + CategorySize - CreatedSize
      /\ Len(state.piles[k].cardIds) = CategorySize

\* C14: SPLIT_PILE of an existing complete pile decreases completedCount by
\* exactly 1; SPLIT_PILE of an existing incomplete pile leaves completedCount
\* unchanged.
C14_SplitAdjustsCompletedCount ==
  LET k == IndexOfId(rendered.piles, call.args[1])
  IN  (call.op = "SPLIT_PILE" /\ k # 0)
      => state.completedCount
           = IF rendered.piles[k].isComplete
             THEN rendered.completedCount - 1
             ELSE rendered.completedCount

\* A complete pile has just been split.
C14_Witness ==
  LET k == IndexOfId(rendered.piles, call.args[1])
  IN  /\ call.op = "SPLIT_PILE"
      /\ k # 0
      /\ rendered.piles[k].isComplete
      /\ rendered.completedCount = 1
      /\ state.completedCount = 0

\* C15: SPLIT_PILE(pileId) for an existing pile removes exactly that pile:
\* every other pile remains, unchanged and in the same relative order,
\* mistakes and cards are unchanged, and the removed pile's cards are again
\* returned by getUngroupedCards.
C15_SplitRemovesExactlyThePile ==
  LET k == IndexOfId(rendered.piles, call.args[1])
      ungrouped == {card.id : card \in Range(getUngroupedCards(state))}
  IN  (call.op = "SPLIT_PILE" /\ k # 0)
      => /\ state.piles = SubSeq(rendered.piles, 1, k - 1)
                            \o SubSeq(rendered.piles, k + 1, Len(rendered.piles))
         /\ state.mistakes = rendered.mistakes
         /\ state.cards = rendered.cards
         /\ \A n \in 1..Len(rendered.piles[k].cardIds) :
              rendered.piles[k].cardIds[n] \in ungrouped

\* C16: RESET_GAME applied to any state yields piles = [], mistakes = 0,
\* completedCount = 0 and a cards list identical (same ids, same order) to
\* the one before the reset.
C16_ResetKeepsOnlyCards ==
  call.op = "RESET_GAME"
  => /\ state.piles = <<>>
     /\ state.mistakes = 0
     /\ state.completedCount = 0
     /\ state.cards = rendered.cards

\* The game has just been reset from a state with a complete pile and a
\* mistake.
C16_Witness ==
  /\ call.op = "RESET_GAME"
  /\ rendered.piles # <<>>
  /\ rendered.mistakes = 1
  /\ rendered.completedCount = 1
  /\ state.piles = <<>>

\* Engine actions that reference a card id or a pile id the state s does not
\* have.
InvalidReferenceActions(s) ==
  LET unknownCards == {c \in UserCards : IndexOfId(s.cards, c) = 0}
      unknownPiles == {p \in PileInputs : IndexOfId(s.piles, p) = 0}
      names == {undefined} \cup {d.name : d \in Range(categories)}
  IN  {[type |-> "CREATE_PILE", card1Id |-> c1, card2Id |-> c2] :
         c1 \in unknownCards, c2 \in UserCards}
      \cup {[type |-> "CREATE_PILE", card1Id |-> c1, card2Id |-> c2] :
         c1 \in UserCards, c2 \in unknownCards}
      \cup {[type |-> "ADD_CARD_TO_PILE", cardId |-> c, pileId |-> p, categoryName |-> n] :
         c \in UserCards, p \in unknownPiles, n \in names}
      \cup {[type |-> "ADD_CARD_TO_PILE", cardId |-> c, pileId |-> p, categoryName |-> n] :
         c \in unknownCards, p \in PileInputs, n \in names}
      \cup {[type |-> "SPLIT_PILE", pileId |-> p] : p \in unknownPiles}

\* C17: an engine action that references a nonexistent card id or pile id
\* (CREATE_PILE with an unknown card, ADD_CARD_TO_PILE with an unknown pile
\* or an unknown card, SPLIT_PILE with an unknown pile) is ignored: the
\* resulting state equals the input state, mistakes included.
C17_InvalidReferenceIgnored ==
  \A action \in InvalidReferenceActions(state) :
    gameReducer(state, action, pileSeq + 1) = state

\* The positions in state.cards of the cards that no pile lists.
FreePositions ==
  {i \in 1..Len(state.cards) :
     \A k \in PileIndexes(state) : \A n \in 1..Len(state.piles[k].cardIds) :
       state.piles[k].cardIds[n] # state.cards[i].id}

\* C18: getUngroupedCards(state) returns exactly the cards of state.cards
\* whose id is in no pile's cardIds, in the order they have in state.cards
\* (all cards when there are no piles, none when every card is in a pile).
C18_UngroupedCards ==
  call.op = "getUngroupedCards"
  => /\ Len(call.ret) = Cardinality(FreePositions)
     /\ \A i \in FreePositions :
          call.ret[Cardinality({j \in FreePositions : j <= i})] = state.cards[i]
     /\ state.piles = <<>> => call.ret = state.cards
     /\ FreePositions = {} => call.ret = <<>>

\* getUngroupedCards has just returned some but not all cards of a state
\* with two piles, the second of which holds a card the first does not.
C18_Witness ==
  /\ call.op = "getUngroupedCards"
  /\ Len(state.piles) = 2
  /\ state.piles[1].cardIds = <<1>>
  /\ state.piles[2].cardIds = <<3>>
  /\ Len(state.cards) = MaxTotalCards
  /\ Len(call.ret) = MaxTotalCards - 2

\* The result is the integer nearest to completedCount * CategorySize * 100
\* / totalCards, halves rounded up; 0 for an empty card list.
IsRoundedPercentage(result) ==
  LET totalCards == Len(state.cards)
      scaled == state.completedCount * CategorySize * 100
  IN  IF totalCards = 0 THEN result = 0
      ELSE /\ 2 * totalCards * result <= 2 * scaled + totalCards
           /\ 2 * scaled + totalCards < 2 * totalCards * (result + 1)

C20_CategoryGate ==
  /\ call.op = "getPileCategoryId" =>
       LET pile == state.piles[call.args[1]]
           firsts == {c \in Range(state.cards) : c.id = pile.cardIds[1]}
       IN  IF pile.cardIds = <<>> \/ firsts = {}
           THEN call.ret = null
           ELSE \E c \in firsts : call.ret = c.categoryId
  /\ call.op = "canAddCardToPile" =>
       LET card == state.cards[call.args[1]]
           pile == state.piles[call.args[2]]
       IN  call.ret <=>
             \/ pile.cardIds = <<>>
             \/ \E c \in Range(state.cards) :
                  c.id = pile.cardIds[1] /\ c.categoryId = card.categoryId

\* canAddCardToPile has just turned a card away from a pile whose first card
\* id does not resolve, although the pile's last card is of the card's
\* category.
C20_Witness ==
  /\ call.op = "canAddCardToPile"
  /\ ~call.ret
  /\ state.piles[call.args[2]].cardIds = <<3, 1>>
  /\ Len(state.cards) = 2

\* C21: getPileCards(pileId, state) returns the cards of the pile in the
\* order of its cardIds, skipping every id that does not resolve to a card,
\* and returns an empty list when no pile has that id.
C21_PileCards ==
  call.op = "getPileCards" =>
    LET holders == {k \in PileIndexes(state) : state.piles[k].id = call.args[1]}
    IN  IF holders = {} THEN call.ret = <<>>
        ELSE \E k \in holders :
               LET cardIds == state.piles[k].cardIds
                   resolving == {n \in 1..Len(cardIds) :
                                   CategoryOf(state, cardIds[n]) # null}
               IN  /\ Len(call.ret) = Cardinality(resolving)
                   /\ \A n \in resolving :
                        LET card == call.ret[Cardinality({m \in resolving : m <= n})]
                        IN  card.id = cardIds[n] /\ card \in Range(state.cards)

\* getPileCards has just returned card-3 before card-1 for the pile
\* [card-3, card-1].
C21_Witness ==
  /\ call.op = "getPileCards"
  /\ call.args[1] \in 1..Len(state.piles)
  /\ state.piles[call.args[1]].cardIds = <<3, 1>>
  /\ Len(call.ret) = 2
  /\ call.ret[1].id = 3

\* The places (pile, position) that hold a card of the category of the
\* pile's first card.  The ids of s.cards are distinct, so a pair of
\* categoryById names the card that find returns for the id.
OwnCategoryPlaces(s) ==
  LET categoryById == {<<s.cards[i].id, s.cards[i].categoryId>> : i \in 1..Len(s.cards)}
  IN  UNION {LET first == CategoryOf(s, s.piles[k].cardIds[1])
             IN  IF first = null THEN {}
                 ELSE {<<k, n>> : n \in {m \in 1..Len(s.piles[k].cardIds) :
                                    <<s.piles[k].cardIds[m], first>> \in categoryById}} :
             k \in PileIndexes(s)}

\* C22: calculateCorrectCards(state) equals the sum of cardIds.length over
\* all piles (0 when there are no piles), and in every reachable state this
\* sum counts only cards that sit in a pile of their own category.
C22_CorrectCards ==
  /\ calculateCorrectCards(state) = Cardinality(OwnCategoryPlaces(state))
  /\ state.piles = <<>> => calculateCorrectCards(state) = 0

\* Two piles that list the same two cards, a third card added to one: five
\* places counted.
C22_Witness ==
  /\ Len(state.piles) = 2
  /\ state.piles[1].cardIds = <<0, 1, 0>>
  /\ state.piles[2].cardIds = <<0, 1>>
  /\ state.mistakes = 1
  /\ calculateCorrectCards(state) = 5

\* C23: findPileContainingCard(cardId, state) returns the first pile in
\* state.piles whose cardIds includes cardId, and null when no pile contains
\* it (including for an id that is no card at all).
C23_PileContainingCard ==
  call.op = "findPileContainingCard" =>
    LET holders == {k \in PileIndexes(state) :
                      \E n \in 1..Len(state.piles[k].cardIds) :
                        state.piles[k].cardIds[n] = call.args[1]}
    IN  IF holders = {} THEN call.ret = null
        ELSE \E k \in holders :
               /\ \A m \in holders : k <= m
               /\ call.ret = state.piles[k]

\* findPileContainingCard has just returned the first of two piles that
\* both list card-3.
C23_Witness ==
  /\ call.op = "findPileContainingCard"
  /\ call.args[1] = 3
  /\ Len(state.piles) = 2
  /\ state.piles[1].cardIds = <<1, 3>>
  /\ state.piles[2].cardIds = <<3>>
  /\ call.ret = state.piles[1]

\* The dataset has a "categories" array.
HasCategories(data) == "categories" \in DOMAIN data

\* Every category has an id, a name and a list of cards, every card an id
\* and a title.
WellShaped(data) ==
  /\ HasCategories(data)
  /\ \A k \in 1..Len(data.categories) :
       LET category == data.categories[k]
       IN  /\ {"id", "name", "cards"} \subseteq DOMAIN category
           /\ category.id # ""
           /\ category.name # ""
           /\ \A n \in 1..Len(category.cards) :
                /\ {"id", "title"} \subseteq DOMAIN category.cards[n]
                /\ category.cards[n].id # ""
                /\ category.cards[n].title # ""

\* The places (category, position) of the dataset that list a card with an
\* id.
CardPlaces(data) ==
  UNION {{<<k, n>> : n \in {n \in 1..Len(data.categories[k].cards) :
                              "id" \in DOMAIN data.categories[k].cards[n]}} :
           k \in {k \in 1..Len(data.categories) : "cards" \in DOMAIN data.categories[k]}}

\* Some card id is listed at two places of the dataset.
DuplicateCardId(data) ==
  /\ HasCategories(data)
  /\ Cardinality({data.categories[p[1]].cards[p[2]].id : p \in CardPlaces(data)})
       < Cardinality(CardPlaces(data))

\* Two categories of the dataset have the same id.
DuplicateCategoryId(data) ==
  /\ HasCategories(data)
  /\ \E k1, k2 \in 1..Len(data.categories) :
       /\ k1 < k2
       /\ "id" \in DOMAIN data.categories[k1]
       /\ "id" \in DOMAIN data.categories[k2]
       /\ data.categories[k1].id = data.categories[k2].id

\* The dataset has exactly 45 categories of exactly 45 cards.
ExactCardinalities(data) ==
  /\ HasCategories(data)
  /\ Len(data.categories) = RequiredCategories
  /\ \A k \in 1..Len(data.categories) :
       /\ "cards" \in DOMAIN data.categories[k]
       /\ Len(data.categories[k].cards) = RequiredCards

\* The file is there and parses.
Readable == file.exists /\ file.parses

\* C24: in strict mode load fails unless the dataset has exactly 45
\* categories each with exactly 45 cards; in relaxed mode these cardinality
\* checks are skipped, while the shape checks and the id-uniqueness checks
\* are applied in both modes.
C24_StrictAndRelaxedValidation ==
  Readable =>
    \A n \in 1..Len(loads) :
      LET load == loads[n]
          sound == /\ WellShaped(file.data)
                   /\ ~DuplicateCardId(file.data)
                   /\ ~DuplicateCategoryId(file.data)
      IN  /\ ~load.skipStrictValidation /\ ~ExactCardinalities(file.data) => load.threw
          /\ ~sound => load.threw
          /\ load.skipStrictValidation /\ sound => ~load.threw

\* A dataset of 45 categories, one of them without its 45 cards, has failed
\* to load in strict mode and then loaded in relaxed mode.
C24_Witness ==
  /\ Len(loads) = 2
  /\ ~loads[1].skipStrictValidation /\ loads[1].threw
  /\ loads[2].skipStrictValidation /\ ~loads[2].threw
  /\ Len(file.data.categories) = RequiredCategories
  /\ ~ExactCardinalities(file.data)

\* C25: in both modes load fails when any card id occurs more than once
\* across all categories or any category id occurs more than once; a failed
\* load produces no (categories, cards) result at all.
C25_DuplicateIdsFail ==
  \A n \in 1..Len(loads) :
    /\ Readable /\ (DuplicateCardId(file.data) \/ DuplicateCategoryId(file.data))
         => loads[n].threw
    /\ loads[n].threw => DOMAIN loads[n] \cap {"categories", "cards"} = {}

\* A relaxed load has failed on a dataset whose only defect is a category
\* id used twice.
C25_Witness ==
  /\ Len(loads) > 0
  /\ loads[1].skipStrictValidation
  /\ loads[1].threw
  /\ WellShaped(file.data)
  /\ DuplicateCategoryId(file.data)
  /\ ~DuplicateCardId(file.data)

\* C26: on a successful load, all output card ids are pairwise distinct, all
\* output category ids are pairwise distinct, and every output card's
\* categoryId is the id of the source category it was listed under, which is
\* one of the output categories.
C26_LoadedIdsDistinct ==
  \A n \in 1..Len(loads) :
    ~loads[n].threw =>
      LET cards == loads[n].cards
          categoryIds == {loads[n].categories[k].id : k \in 1..Len(loads[n].categories)}
          listed == {<<file.data.categories[p[1]].cards[p[2]].id,
                       file.data.categories[p[1]].id>> : p \in CardPlaces(file.data)}
      IN  /\ Cardinality({cards[i].id : i \in 1..Len(cards)}) = Len(cards)
          /\ Cardinality(categoryIds) = Len(loads[n].categories)
          /\ \A i \in 1..Len(cards) :
               /\ <<cards[i].id, cards[i].categoryId>> \in listed
               /\ cards[i].categoryId \in categoryIds

\* A load has returned cards of two categories, a card of the second
\* category first.
C26_Witness ==
  /\ Len(loads) > 0
  /\ ~loads[1].threw
  /\ Len(loads[1].categories) = 2
  /\ Len(loads[1].cards) > 2
  /\ loads[1].cards[1].categoryId = loads[1].categories[2].id

\* The cards the dataset lists, each with the id of its category.
SourceCards(data) ==
  {[id |-> data.categories[p[1]].cards[p[2]].id,
    title |-> data.categories[p[1]].cards[p[2]].title,
    categoryId |-> data.categories[p[1]].id] : p \in CardPlaces(data)}

\* C27: the card list returned by load is a permutation of the flattened
\* source cards: loading the same valid dataset twice yields the same
\* multiset of cards (order may differ, membership never), and the shuffle
\* returns a new sequence leaving its input sequence unchanged.
C27_ShufflePermutes ==
  \A n \in 1..Len(loads) :
    ~loads[n].threw =>
      /\ Len(loads[n].cards) = Cardinality(CardPlaces(file.data))
      /\ Cardinality(SourceCards(file.data)) = Cardinality(CardPlaces(file.data))
      /\ Range(loads[n].cards) = SourceCards(file.data)
      /\ loads[n].flattened = flatMapCards(file.data.categories, 1)
      /\ \A m \in 1..Len(loads) :
           ~loads[m].threw =>
             /\ Len(loads[m].cards) = Len(loads[n].cards)
             /\ Range(loads[m].cards) = Range(loads[n].cards)

\* Two loads of the same dataset have returned its cards in two orders.
C27_Witness ==
  /\ Len(loads) = 2
  /\ ~loads[1].threw
  /\ ~loads[2].threw
  /\ Len(loads[1].cards) > MaxDraws
  /\ loads[1].cards # loads[2].cards
  /\ loads[1].cards # loads[1].flattened

\* C28: the loader's shuffle is an unbiased random permutation: every
\* permutation of the input is a possible output and nothing else is, and
\* each permutation comes from exactly one sequence of draws, so that draws
\* that are uniform make every permutation equally likely.
C28_ShuffleUnbiased ==
  Len(loads) = 1 /\ ~loads[1].threw /\ Len(loads[1].flattened) - 1 <= MaxDraws =>
    LET array == loads[1].flattened
        outputs == {shuffleArray(array, draws).shuffled : draws \in AllDraws(Len(array))}
        permutations == {p \in [1..Len(array) -> Range(array)] : Range(p) = Range(array)}
    IN  /\ outputs = permutations
        /\ Cardinality(AllDraws(Len(array))) = Cardinality(permutations)
        /\ loads[1].cards \in permutations

\* The shuffle has returned MaxDraws + 1 cards with the last one first and
\* the first one last.
C28_Witness ==
  /\ Len(loads) = 1
  /\ ~loads[1].threw
  /\ Len(loads[1].cards) = MaxDraws + 1
  /\ loads[1].cards[1] = loads[1].flattened[MaxDraws + 1]
  /\ loads[1].cards[MaxDraws + 1] = loads[1].flattened[1]

\* C29: every load validation failure is raised at the first violation found
\* and carries a message that identifies the offending entity (the card id,
\* the category id or the index), including for duplicate card ids and
\* duplicate category ids.
C29_FailureNamesOffender ==
  \A n \in 1..Len(loads) :
    Readable /\ HasCategories(file.data) /\ loads[n].threw =>
      loads[n].message.values # <<>>

RECURSIVE AddOneAtATime(_, _, _)
\* The calls of the loop of handlePileClick issued one at a time, each
\* against the state the call before it left (a render between the calls).
AddOneAtATime(s, selectedCardIds, pileId) ==
  IF selectedCardIds = <<>> THEN s
  ELSE LET res == tryAddCardToPile(s, Head(selectedCardIds), pileId)
           next == gameReducer(s, res.action, 0)
       IN  IF next = s
           THEN AddOneAtATime(s, Tail(selectedCardIds), pileId)
           ELSE AddOneAtATime(next, Tail(selectedCardIds), pileId)

\* C30: a sequence of tryAddCardToPile calls issued against one stale state
\* snapshot (no re-render between the calls, as in the loop of
\* handlePileClick) produces the same final piles, mistakes and
\* completedCount as the same calls issued one at a time, each against the
\* up-to-date state.
C30_StaleBatchAsOneAtATime ==
  call.op = "handlePileClick" =>
    LET fresh == AddOneAtATime(rendered, Tail(call.args), Head(call.args))
    IN  /\ state.piles = fresh.piles
        /\ state.mistakes = fresh.mistakes
        /\ state.completedCount = fresh.completedCount

\* C31: when a pile is created from three or more selected cards
\* (handleCreatePileFromSelected), the cards after the first two are
\* attempted against the pile that was just created by that same operation,
\* never against a pile that existed before it.
C31_RestTriedOnCreatedPile ==
  call.op = "handleCreatePileFromSelected" /\ Len(call.args) > 2 /\ call.ret =>
    LET created == state.piles[Len(rendered.piles) + 1]
    IN  /\ Len(call.attempted) = Len(call.args) - 2
        /\ \A n \in 1..Len(call.attempted) : call.attempted[n] = created.id
        /\ \A k \in 1..Len(rendered.piles) : state.piles[k] = rendered.piles[k]

\* C32: in every state reachable through tryCreatePile and
\* tryAddCardToPile, no pile's cardIds contains the same card id twice (in
\* particular tryCreatePile(c, c) and re-adding a card already in the target
\* pile do not produce a duplicate entry).
C32_NoCardTwiceInAPile ==
  \A k \in PileIndexes(state) :
    Cardinality(Range(state.piles[k].cardIds)) = Len(state.piles[k].cardIds)

\* C33: in every reachable state, calculateCorrectCards(state) plus the
\* number of cards returned by getUngroupedCards(state) equals
\* state.cards.length, i.e. the displayed grouped count (cards.length minus
\* ungrouped) equals the sum of pile sizes.
C33_GroupedPlusUngroupedIsAll ==
  calculateCorrectCards(state) + Len(getUngroupedCards(state)) = Len(state.cards)

\* C34: for every state reachable in a game started from a successfully
\* loaded dataset, calculateCompletionPercentage(state) is between 0 and 100
\* inclusive.
C34_PercentageWithinBounds ==
  /\ calculateCompletionPercentage(state) >= 0
  /\ calculateCompletionPercentage(state) <= 100

\* C35: the engine never produces an empty pile: in every reachable state
\* every pile has at least two cards, since piles are created with exactly
\* two cards and only grow or are removed whole.
C35_NoPileUnderTwoCards ==
  \A k \in PileIndexes(state) : Len(state.piles[k].cardIds) >= 2

\* A pile as created stands next to a pile that has grown.
C35_Witness ==
  /\ Len(state.piles) = 2
  /\ Len(state.piles[1].cardIds) > 2
  /\ Len(state.piles[2].cardIds) = 2

\* C36: no action changes the card set: after any sequence of actions
\* state.cards is identical (same cards, same order, same categoryIds) to the
\* list supplied at initialization.
C36_CardsNeverChange == state.cards = initialCards

\* Piles were created and a mistake counted, the cards being those of the
\* start.
C36_Witness ==
  /\ Len(state.piles) = 2
  /\ state.mistakes = 1
  /\ state.cards = initialCards

\* C37: the reducer's CREATE_PILE for two existing cards with different
\* categoryIds returns the state unchanged: no pile is created and the
\* reducer itself does not increment mistakes (only the tryCreatePile helper
\* records the mistake).
C37_MismatchedCreatePileIgnored ==
  call.op = "CREATE_PILE" =>
    LET category1 == CategoryOf(state, call.args[1])
        category2 == CategoryOf(state, call.args[2])
    IN  (category1 # null /\ category2 # null /\ category1 # category2) =>
          /\ call.ret = state
          /\ tryCreatePile(state, call.args[1], call.args[2]) =
               [ret |-> FALSE, action |-> [type |-> "INCREMENT_MISTAKES"]]

\* CREATE_PILE for a cat-2 card and a cat-1 card was reduced on a board of
\* two piles and returned that board.
C37_Witness ==
  /\ call.op = "CREATE_PILE"
  /\ CategoryOf(state, call.args[1]) = "cat-2"
  /\ CategoryOf(state, call.args[2]) = "cat-1"
  /\ Len(state.piles) = 2
  /\ call.ret = state

====
